---- MODULE Spec2Model ----
(***************************************************************************)
(* Model of the device discovery of node-src/scripts/server.py.           *)
(*                                                                         *)
(* The module global devices_list is a reference.  After import it refers  *)
(* to the route function devices_list (line 52 rebinds the name that line  *)
(* 9 bound to {}).  Every call of devices() rebinds it to a fresh dict.    *)
(* Dicts are objects on a heap, so a Discover thread that loaded the       *)
(* global before a rebind stores into the dict it loaded.                  *)
(*                                                                         *)
(* Handlers are plain functions that take no lock.  The Discover threads   *)
(* of a sweep interleave freely, one step per access to shared state or    *)
(* to the network.  Two specifications bound the interleaving of the       *)
(* handlers themselves:                                                    *)
(*   Spec         calls of devices() one after another, devices_list()     *)
(*                and device(id) at any moment, also during a sweep;       *)
(*   SpecOverlap  calls of devices() overlapping freely.                   *)
(* devices_list() and device(id) write to no shared state, so what the     *)
(* sweeps can do is the same with and without them.                        *)
(***************************************************************************)
EXTENDS Integers, FiniteSets, Sequences, TLC

\* ---- bounds ----
\* candidate host suffixes probed by one sweep (range(0,256) in the source)
NumSuffixes == 2
\* calls of devices() in one behaviour
MaxSweeps == 2
\* the values given to a variable class are -MaxValue .. MaxValue
MaxValue == 3

Suffixes == 0 .. (NumSuffixes - 1)
Sweeps == 1 .. MaxSweeps

\* ---- values ----
\* device ids a device may report; "" is the empty string
Ids == {"", "a", "b"}

\* an ip value as a device may put it in its own answer
NoIp == [net |-> <<>>, host |-> -1]
SpoofIp == [net |-> <<"6", "6", "6">>, host |-> 6]

\* what one GET of <url>:9000/id can come to
FailKinds == {"refused", "timeout", "empty", "nonjson"}
Failures == [kind : FailKinds, id : {""}, ip : {NoIp}]
\* a JSON object without the key id
NoIdAnswers == [kind : {"noid"}, id : {""}, ip : {SpoofIp}]
\* a JSON object with the key id (and possibly its own ip)
OkAnswers == [kind : {"ok"}, id : Ids, ip : {SpoofIp}]
Responses == Failures \cup NoIdAnswers \cup OkAnswers
NoResponse == [kind |-> "none", id |-> "", ip |-> NoIp]

\* outputs of `ip r l`, as token lists; an address token is its dotted parts
RouteFail == << <<"CalledProcessError">> >>
RouteOutputs ==
  { << <<"default">>, <<"via">>, <<"192", "168", "1", "1">>, <<"dev">>, <<"eth0">>,
       <<"src">>, <<"192", "168", "1", "7">> >>,
    << <<"default">>, <<"via">>, <<"192", "168", "1", "1">>, <<"dev">>, <<"eth0">> >>,
    << <<"192", "168", "1", "0/24">>, <<"dev">>, <<"eth0">>, <<"scope">>, <<"link">> >>,
    << >>,
    RouteFail }

\* strs.split(b'src')[-1].split(): the tokens after the last src, all of them if there is none
AfterLastSrc(toks) ==
  LET at == {n \in 1 .. Len(toks) : toks[n] = <<"src">>}
      last == IF at = {} THEN 0 ELSE CHOOSE n \in at : \A m \in at : m <= n
  IN SubSeq(toks, last + 1, Len(toks))

\* the timeout given to every Discover, 0.5, in tenths
ScanInterval == 5

UrlFromOne(h, n) == [net |-> <<h[1], h[2], h[3]>>, host |-> n + 1]
\* "http://"+host_ip[0]+'.'+host_ip[1]+'.'+host_ip[2]+'.'+str(i)
Url(h, n) == [net |-> <<h[1], h[2], h[3]>>, host |-> n]

\* ---- dicts ----
EmptyDict == [k \in {} |-> NoResponse]
Keys(d) == DOMAIN d

DictSetFirstWins(d, k, v) == IF k \in DOMAIN d THEN d ELSE (k :> v) @@ d
DictSetClobber(d, k, v) == (k :> v)
\* d[k] = v
DictSet(d, k, v) == (k :> v) @@ d

VARIABLES
  devices_list,  \* the global: 0 is the function devices_list, d > 0 the dict of sweep d
  heap,          \* heap[d]: content of the dict allocated by sweep d
  pc,            \* pc[s]: position of call s of devices()
  host_ip,       \* host_ip[s]: the local of that name
  i,             \* i[s]: the loop variable of both loops
  thread,        \* thread[s][a]: the Discover thread for suffix a
  result,        \* result[s]: what call s returned, as it was at the return
  pre,           \* pre[s]: what the global held when call s began
  overlap,       \* overlap[s]: another call of devices() was in flight during s
  found,         \* found[s]: the answers with an id that the probes of s got
  lastStore,     \* lastStore[s][k]: url of the thread of s that stored key k last
  served,        \* the last call of devices_list() or of device(id)
  strs,          \* strs[s]: the local of that name, the output of `ip r l`
  made           \* the last construction of a variable (core/variables.py)

vars == <<devices_list, heap, pc, host_ip, i, thread, result, pre, overlap,
          found, lastStore, served, strs, made>>

\* the value a reference denotes
Function == [tag |-> "function", map |-> EmptyDict]
Content(ref) == IF ref = 0 THEN Function ELSE [tag |-> "dict", map |-> heap[ref]]
Registry == Content(devices_list)

NoThread == [pc |-> "none", res |-> NoResponse, target |-> 0, url |-> NoIp,
             scanInterval |-> 0]
NoHost == <<>>
NoValue == [tag |-> "none", map |-> EmptyDict]
NoStore == [k \in Ids |-> NoIp]

\* op: the handler; during: the sweeps in flight at the call; value: what
\* devices_list() returned; id, exc: the argument of device and the exception
\* it passed over; answer: what the device of that record would have answered
NoCall == [op |-> "none", during |-> {}, value |-> NoValue, id |-> "",
           exc |-> "none", answer |-> NoResponse]

NoStrs == << << >> >>
NoVariable == [cls |-> "none", value |-> 0, raised |-> "none", int |-> 0]

InFlight(s) == pc[s] \in {"route", "dispatch", "join", "return"}
Active(s, a) == thread[s][a].pc \in {"run", "got", "store"}

Init ==
  /\ devices_list = 0
  /\ heap = [d \in Sweeps |-> EmptyDict]
  /\ pc = [s \in Sweeps |-> "idle"]
  /\ host_ip = [s \in Sweeps |-> NoHost]
  /\ i = [s \in Sweeps |-> 0]
  /\ thread = [s \in Sweeps |-> [a \in Suffixes |-> NoThread]]
  /\ result = [s \in Sweeps |-> NoValue]
  /\ pre = [s \in Sweeps |-> NoValue]
  /\ overlap = [s \in Sweeps |-> FALSE]
  /\ found = [s \in Sweeps |-> {}]
  /\ lastStore = [s \in Sweeps |-> NoStore]
  /\ served = NoCall
  /\ strs = [s \in Sweeps |-> NoStrs]
  /\ made = NoVariable

\* ---- devices(): GET /devices ----

devices_resetKeeps(s) ==
  /\ pc[s] = "idle"
  /\ s > 1 => pc[s - 1] # "idle"
  /\ pre' = [pre EXCEPT ![s] = Registry]
  /\ devices_list' = s
  /\ heap' = [heap EXCEPT ![s] = Registry.map]
  /\ pc' = [pc EXCEPT ![s] = "route"]
  /\ overlap' = [t \in Sweeps |->
                   IF t = s THEN \E u \in Sweeps : InFlight(u)
                   ELSE overlap[t] \/ InFlight(t)]
  /\ UNCHANGED <<host_ip, i, thread, result, found, lastStore, served, strs, made>>
\* line 32: devices_list = {}
devices_reset(s) ==
  /\ pc[s] = "idle"
  /\ s > 1 => pc[s - 1] # "idle"
  /\ pre' = [pre EXCEPT ![s] = Registry]
  /\ devices_list' = s
  /\ pc' = [pc EXCEPT ![s] = "route"]
  /\ overlap' = [t \in Sweeps |->
                   IF t = s THEN \E u \in Sweeps : InFlight(u)
                   ELSE overlap[t] \/ InFlight(t)]
  /\ UNCHANGED <<heap, host_ip, i, thread, result, found, lastStore, served, strs, made>>

\* a call of devices() that begins when no other is in flight
devices_serial(s) ==
  /\ \A u \in Sweeps : ~InFlight(u)
  /\ devices_reset(s)

\* lines 33-35: run `ip r l` and take the dotted parts of the token after src
devices_route(s) ==
  /\ pc[s] = "route"
  /\ \E out \in RouteOutputs :
       LET toks == AfterLastSrc(out) IN
       IF out = RouteFail \/ Len(toks) = 0
       THEN /\ pc' = [pc EXCEPT ![s] = "raised"]
            /\ UNCHANGED <<host_ip, strs>>
       ELSE /\ pc' = [pc EXCEPT ![s] = "dispatch"]
            /\ host_ip' = [host_ip EXCEPT ![s] = toks[1]]
            /\ strs' = [strs EXCEPT ![s] = out]
  /\ UNCHANGED <<devices_list, heap, i, thread, result, pre, overlap, found,
                 lastStore, served, made>>

\* lines 39-44: one pass of the first loop
devices_start(s) ==
  /\ pc[s] = "dispatch"
  /\ IF Len(host_ip[s]) < 3
     THEN /\ pc' = [pc EXCEPT ![s] = "raised"]
          /\ host_ip' = [host_ip EXCEPT ![s] = NoHost]
          /\ strs' = [strs EXCEPT ![s] = NoStrs]
          /\ UNCHANGED <<i, thread>>
     ELSE /\ thread' = [thread EXCEPT ![s][i[s]] =
                          [pc |-> "run", res |-> NoResponse, target |-> 0,
                           url |-> Url(host_ip[s], i[s]),
                           scanInterval |-> ScanInterval]]
          /\ IF i[s] + 1 = NumSuffixes
             THEN /\ i' = [i EXCEPT ![s] = 0]
                  /\ pc' = [pc EXCEPT ![s] = "join"]
             ELSE /\ i' = [i EXCEPT ![s] = i[s] + 1]
                  /\ UNCHANGED pc
          /\ UNCHANGED <<host_ip, strs>>
  /\ UNCHANGED <<devices_list, heap, result, pre, overlap, found, lastStore,
                 served, made>>

JoinedNoWait(s, a) == TRUE
\* thread[i].join() returns
Joined(s, a) == thread[s][a].pc = "done"

\* lines 46-47: one pass of the second loop
devices_join(s) ==
  /\ pc[s] = "join"
  /\ Joined(s, i[s])
  /\ IF i[s] + 1 = NumSuffixes
     THEN /\ i' = [i EXCEPT ![s] = 0]
          /\ pc' = [pc EXCEPT ![s] = "return"]
     ELSE /\ i' = [i EXCEPT ![s] = i[s] + 1]
          /\ UNCHANGED pc
  /\ UNCHANGED <<devices_list, heap, host_ip, thread, result, pre, overlap,
                 found, lastStore, served, strs, made>>

\* line 49: return devices_list; the locals go, a thread that still runs stays
devices_return(s) ==
  /\ pc[s] = "return"
  /\ result' = [result EXCEPT ![s] = Registry]
  /\ pc' = [pc EXCEPT ![s] = "returned"]
  /\ host_ip' = [host_ip EXCEPT ![s] = NoHost]
  /\ strs' = [strs EXCEPT ![s] = NoStrs]
  /\ thread' = [thread EXCEPT ![s] =
                  [a \in Suffixes |-> IF Active(s, a) THEN thread[s][a] ELSE NoThread]]
  /\ UNCHANGED <<devices_list, heap, i, pre, overlap, found, lastStore, served,
                 made>>

\* ---- Discover.run ----

\* lines 87-91: urlopen raises (refused, timeout), the body is empty, or
\* json.loads raises
Misses(r) == r.kind \in FailKinds

\* lines 87-91: the request and the parse of its body
run_urlopen(s, a) ==
  /\ thread[s][a].pc = "run"
  /\ \E r \in Responses :
       /\ thread' = [thread EXCEPT ![s][a].pc = IF Misses(r) THEN "done" ELSE "got",
                                   ![s][a].res = r]
       /\ found' = [found EXCEPT ![s] =
                      IF r.kind = "ok"
                      THEN @ \cup {[url |-> thread[s][a].url, id |-> r.id]}
                      ELSE @]
  /\ UNCHANGED <<devices_list, heap, pc, host_ip, i, result, pre, overlap,
                 lastStore, served, strs, made>>

DataOnlyIp(r, url) == [id |-> "", ip |-> url]
\* lines 91-92: data = json.loads(message); data['ip'] = self.url
Data(r, url) == [id |-> r.id, ip |-> url]

run_loadGet(s, a) ==
  /\ thread[s][a].pc = "got"
  /\ IF devices_list = 0
     THEN thread' = [thread EXCEPT ![s][a].pc = "done"]
     ELSE thread' = [thread EXCEPT ![s][a].pc = "store", ![s][a].target = devices_list]
  /\ UNCHANGED <<devices_list, heap, pc, host_ip, i, result, pre, overlap, found,
                 lastStore, served, strs, made>>
\* line 93, up to the subscript: the global is loaded, then data['id'] is looked
\* up, which raises KeyError when the answer has no id
run_load(s, a) ==
  /\ thread[s][a].pc = "got"
  /\ IF thread[s][a].res.kind # "ok" \/ devices_list = 0
     THEN thread' = [thread EXCEPT ![s][a].pc = "done"]
     ELSE thread' = [thread EXCEPT ![s][a].pc = "store", ![s][a].target = devices_list]
  /\ UNCHANGED <<devices_list, heap, pc, host_ip, i, result, pre, overlap, found,
                 lastStore, served, strs, made>>

\* line 93: the store into the dict that was loaded
run_store(s, a) ==
  /\ thread[s][a].pc = "store"
  /\ LET t == thread[s][a].target
         r == thread[s][a].res
         url == thread[s][a].url
     IN /\ heap' = [heap EXCEPT ![t] = DictSet(heap[t], r.id, Data(r, url))]
        /\ lastStore' = [lastStore EXCEPT ![s][r.id] = url]
  /\ thread' = [thread EXCEPT ![s][a].pc = "done"]
  /\ UNCHANGED <<devices_list, pc, host_ip, i, result, pre, overlap, found, served, strs, made>>

\* ---- devices_list(): GET /devices_list ----

\* lines 51-53: return devices_list
list_devices ==
  /\ served' = [NoCall EXCEPT !.op = "devices_list",
                                !.during = {s \in Sweeps : InFlight(s)},
                                !.value = Registry]
  /\ UNCHANGED <<devices_list, heap, pc, host_ip, i, thread, result, pre, overlap,
                 found, lastStore, strs, made>>

\* ---- device(id): GET /device/<id> ----

\* line 59: devices_list[id][ip] raises inside the try: the global is no dict,
\* or has no key id, or else the name ip is not defined
deviceExc(id) ==
  IF devices_list = 0 THEN "TypeError"
  ELSE IF id \notin Keys(heap[devices_list]) THEN "KeyError"
  ELSE "NameError"

\* what the device at the address of the record of id may answer to a probe;
\* without a record there is no address
Answers(id) == IF deviceExc(id) = "NameError" THEN Responses ELSE {NoResponse}

deviceDrops(id, r) ==
  /\ served' = [NoCall EXCEPT !.op = "device", !.id = id, !.exc = deviceExc(id),
                                !.answer = r]
  /\ heap' = [d \in Sweeps |-> IF d = devices_list THEN EmptyDict ELSE heap[d]]
  /\ UNCHANGED <<devices_list, pc, host_ip, i, thread, result, pre, overlap, found,
                 lastStore, strs, made>>
\* lines 56-68: every exception is passed over; r is what the device at the
\* address of the record would answer, which the handler never gets to ask for
device(id, r) ==
  /\ served' = [NoCall EXCEPT !.op = "device", !.id = id, !.exc = deviceExc(id),
                                !.answer = r]
  /\ UNCHANGED <<devices_list, heap, pc, host_ip, i, thread, result, pre, overlap,
                 found, lastStore, strs, made>>

\* the Discover threads
Threads ==
  \/ \E s \in Sweeps, a \in Suffixes : run_urlopen(s, a)
  \/ \E s \in Sweeps, a \in Suffixes : run_load(s, a)
  \/ \E s \in Sweeps, a \in Suffixes : run_store(s, a)

\* a call of devices() past its first line
Sweeping ==
  \/ \E s \in Sweeps : devices_route(s)
  \/ \E s \in Sweeps : devices_start(s)
  \/ \E s \in Sweeps : devices_join(s)
  \/ \E s \in Sweeps : devices_return(s)

Next ==
  \/ \E s \in Sweeps : devices_serial(s)
  \/ Sweeping
  \/ Threads
  \/ list_devices
  \/ \E id \in Ids : \E r \in Answers(id) : device(id, r)

Spec == Init /\ [][Next]_vars

NextOverlap ==
  \/ \E s \in Sweeps : devices_reset(s)
  \/ Sweeping
  \/ Threads

SpecOverlap == Init /\ [][NextOverlap]_vars

\* ---- core/variables.py ----

None == "<None>"

\* the classes of the file, each with its base and the attributes its body
\* sets; UserNoSql is a class as a caller may derive it
ClassDef ==
  [ BaseIntVariable |->
      [base |-> "int",
       own |-> ("sql_data_type" :> "SMALLINT" @@ "header_name" :> None
                  @@ "functional_type" :> None)],
    BaseBoolVariable |->
      [base |-> "BaseIntVariable",
       own |-> ("functional_type" :> "bool" @@ "sql_data_type" :> "BOOLEAN")],
    IsInferredVariable |->
      [base |-> "BaseBoolVariable", own |-> ("header_name" :> "is_inferred")],
    PhiVariable |->
      [base |-> "BaseIntVariable",
       own |-> ("header_name" :> "phi" @@ "functional_type" :> "angle")],
    Label |->
      [base |-> "BaseIntVariable",
       own |-> ("header_name" :> "label" @@ "functional_type" :> "label")],
    BaseDistanceIntVar |->
      [base |-> "BaseIntVariable", own |-> ("functional_type" :> "distance")],
    mLogLik |->
      [base |-> "BaseIntVariable",
       own |-> ("header_name" :> "mlog_L_x1000" @@ "functional_type" :> "proba")],
    XYDistance |->
      [base |-> "BaseIntVariable",
       own |-> ("header_name" :> "xy_dist_log10x1000"
                  @@ "functional_type" :> "relative_distance_1e6")],
    WidthVariable |->
      [base |-> "BaseDistanceIntVar", own |-> ("header_name" :> "w")],
    HeightVariable |->
      [base |-> "BaseDistanceIntVar", own |-> ("header_name" :> "h")],
    BaseRelativeVariable |->
      [base |-> "BaseDistanceIntVar", own |-> [n \in {} |-> None]],
    XPosVariable |->
      [base |-> "BaseRelativeVariable", own |-> ("header_name" :> "x")],
    YPosVariable |->
      [base |-> "BaseRelativeVariable", own |-> ("header_name" :> "y")],
    SubRoiValueObjectCenterVariable |->
      [base |-> "BaseIntVariable",
       own |-> ("sql_data_type" :> "TINYINT UNSIGNED" @@ "header_name" :> "sub_roi"
                  @@ "functional_type" :> "grey_value")],
    SubRoi1ValueVariable |->
      [base |-> "BaseIntVariable",
       own |-> ("sql_data_type" :> "TINYINT UNSIGNED" @@ "header_name" :> "sub_roi1"
                  @@ "functional_type" :> "grey_value")],
    SubRoi2ValueVariable |->
      [base |-> "BaseIntVariable",
       own |-> ("sql_data_type" :> "TINYINT UNSIGNED" @@ "header_name" :> "sub_roi2"
                  @@ "functional_type" :> "grey_value")],
    NPixelsSubRoi1Variable |->
      [base |-> "BaseIntVariable",
       own |-> ("header_name" :> "n_px_sub_roi_1" @@ "functional_type" :> "nr_pixels")],
    NPixelsSubRoi2Variable |->
      [base |-> "BaseIntVariable",
       own |-> ("header_name" :> "n_px_sub_roi_2" @@ "functional_type" :> "nr_pixels")],
    NPxObjectVariable |->
      [base |-> "BaseIntVariable", own |-> ("header_name" :> "total_n_px")],
    UserNoSql |->
      [base |-> "PhiVariable", own |-> ("sql_data_type" :> None)] ]

Classes == DOMAIN ClassDef
Values == (0 - MaxValue) .. MaxValue

\* cls.name: the attribute of the nearest class of the chain of bases that sets it
RECURSIVE getattr(_, _)
getattr(cls, name) ==
  IF name \in DOMAIN ClassDef[cls].own
  THEN ClassDef[cls].own[name]
  ELSE getattr(ClassDef[cls].base, name)

\* int.__new__(cls, value) for an int value
int_new(cls, value) == value

BaseIntVariable_newNoHeaderCheck(cls, value) ==
  IF getattr(cls, "functional_type") = None \/ getattr(cls, "sql_data_type") = None
  THEN [cls |-> cls, value |-> value, raised |-> "NotImplementedError", int |-> 0]
  ELSE [cls |-> cls, value |-> value, raised |-> "none", int |-> int_new(cls, value)]
\* lines 18-25: BaseIntVariable.__new__
BaseIntVariable_new(cls, value) ==
  IF getattr(cls, "functional_type") = None THEN
    [cls |-> cls, value |-> value, raised |-> "NotImplementedError", int |-> 0]
  ELSE IF getattr(cls, "sql_data_type") = None THEN
    [cls |-> cls, value |-> value, raised |-> "NotImplementedError", int |-> 0]
  ELSE IF getattr(cls, "header_name") = None THEN
    [cls |-> cls, value |-> value, raised |-> "NotImplementedError", int |-> 0]
  ELSE [cls |-> cls, value |-> value, raised |-> "none", int |-> int_new(cls, value)]

\* cls(value)
construct(cls, value) ==
  /\ made' = BaseIntVariable_new(cls, value)
  /\ UNCHANGED <<devices_list, heap, pc, host_ip, i, thread, result, pre, overlap,
                 found, lastStore, served, strs>>

NextVariables == \E cls \in Classes, value \in Values : construct(cls, value)

SpecVariables == Init /\ [][NextVariables]_vars

\* ---- properties ----

EmptyRegistry == [tag |-> "dict", map |-> EmptyDict]
Returned(s) == pc[s] = "returned"
\* call s of devices() ran from its first line to its return with no other in flight
Alone(s) == Returned(s) /\ ~overlap[s]
\* no two answers of F came from different addresses with the same id
DistinctIds(F) == \A x \in F : \A y \in F : x.id = y.id => x = y
FoundIds(s) == {x.id : x \in found[s]}
\* one record per answer of F, under its id, with the probed address as ip
Expected(F) ==
  [k \in {x.id : x \in F} |-> [id |-> k, ip |-> (CHOOSE x \in F : x.id = k).url]]

\* C1: a devices_list() read made while sweep s was in flight returned either
\* the registry as it was before s began or the registry s ended with.
C1_ReadDuringSweepIsPreOrPost ==
  \A s \in Sweeps :
    (Returned(s) /\ served.op = "devices_list" /\ s \in served.during)
      => served.value \in {pre[s], result[s]}

\* C2: once a call of devices() has returned, none of its Discover threads is
\* still running or still about to store into the registry.
C2_ReturnedSweepHasNoLiveProbe ==
  \A s \in Sweeps : Returned(s) => \A a \in Suffixes : ~Active(s, a)

C2_Witness ==
  \E s \in Sweeps : Returned(s) /\ found[s] # {} /\ Cardinality(found[s]) < NumSuffixes

\* C3: a sweep that ran alone and whose K answering addresses reported pairwise
\* distinct ids returns a registry of exactly K entries, one per answering
\* address, whatever the order in which its probes completed.
C3_AloneSweepKeepsEveryAnswer ==
  \A s \in Sweeps :
    (Alone(s) /\ DistinctIds(found[s]))
      => /\ result[s].tag = "dict"
         /\ Cardinality(Keys(result[s].map)) = Cardinality(found[s])
         /\ result[s].map = Expected(found[s])

C3_Witness ==
  \E s \in Sweeps : Alone(s) /\ DistinctIds(found[s]) /\ Cardinality(found[s]) >= 2

\* C4: when several addresses answered one sweep with the same id, the registry
\* the sweep returns holds one record under that id, the one of the probe that
\* stored last.
C4_SameIdLastStoreWins ==
  \A s \in Sweeps :
    Alone(s) =>
      \A k \in FoundIds(s) :
        /\ k \in Keys(result[s].map)
        /\ result[s].map[k] = [id |-> k, ip |-> lastStore[s][k]]

\* the lower of two addresses with the same id stored last and is the record
C4_Witness ==
  \E s \in Sweeps :
    /\ Alone(s)
    /\ \E x \in found[s] : \E y \in found[s] :
         /\ x.id = y.id
         /\ x.url.host < y.url.host
         /\ lastStore[s][x.id] = x.url
         /\ result[s].map[x.id].ip = x.url

\* C5: every record of a registry that a sweep returned has a non-empty id and,
\* as ip, the address that was probed to get it.
C5_RecordsHaveIdAndProbedIp ==
  \A s \in Sweeps :
    Returned(s) =>
      \A k \in Keys(result[s].map) :
        /\ k # ""
        /\ result[s].map[k].id # ""
        /\ \E t \in Sweeps : \E x \in found[t] :
             x.id = k /\ x.url = result[s].map[k].ip

\* C6: only an answer that is a JSON object with an id reaches the store, no
\* call of devices() raises once a probe was started, and a sweep that ran
\* alone and whose probes all failed returns the empty registry.
C6_FailedProbesLeaveNoTrace ==
  \A s \in Sweeps :
    /\ \A a \in Suffixes : thread[s][a].pc = "store" => thread[s][a].res.kind = "ok"
    /\ pc[s] = "raised" => \A a \in Suffixes : thread[s][a] = NoThread
    /\ (Alone(s) /\ found[s] = {}) => result[s] = EmptyRegistry

C6_Witness ==
  \E s \in Sweeps : Alone(s) /\ found[s] = {} /\ result[s] = EmptyRegistry

\* a step that is a call of device(id)
DeviceStep == served' # served /\ served'.op = "device"

\* C7: a call of device(id) for an id that has a record, while the device at the
\* address of that record answers a probe with a JSON object with an id, puts
\* that answer in the registry under its id, with the probed address as ip, and
\* leaves the other records as they were.
C7_RefreshUpsertsFreshAnswer ==
  [][(DeviceStep /\ served'.exc = "NameError" /\ served'.answer.kind = "ok")
       => LET old == Registry.map
              new == Registry'.map
              k == served'.answer.id
          IN /\ Registry'.tag = "dict"
             /\ k \in Keys(new)
             /\ new[k] = [id |-> k, ip |-> old[served'.id].ip]
             /\ \A j \in Keys(old) \ {k} : j \in Keys(new) /\ new[j] = old[j]]_vars

\* C8: a call of device(id) for an id without a record, or while the device at
\* the address of the record fails to answer, leaves the global and every dict
\* as they were, and ends by passing over the exception.
C8_RefreshMissChangesNothing ==
  [][(DeviceStep /\ (served'.exc \in {"TypeError", "KeyError"}
                       \/ served'.answer.kind # "ok"))
       => /\ devices_list' = devices_list
          /\ heap' = heap
          /\ served'.exc \in {"TypeError", "KeyError", "NameError"}]_vars

C8_Witness ==
  /\ served.op = "device"
  /\ served.exc = "KeyError"
  /\ Keys(Registry.map) # {}

\* two calls of devices() in a row, s then s + 1, each alone, whose probes got
\* the same answers from the same addresses
SameDevicesTwice(s) ==
  /\ s + 1 \in Sweeps
  /\ Alone(s)
  /\ Alone(s + 1)
  /\ found[s] = found[s + 1]

\* C9: two sweeps in a row against the same answering devices return the same
\* registry content.
C9_SweepTwiceSameRegistry ==
  \A s \in Sweeps : SameDevicesTwice(s) => result[s] = result[s + 1]

\* C9 as amended: two sweeps in a row against the same answering devices, which
\* report pairwise distinct ids, return the same registry content.
C9_SweepTwiceSameRegistryDistinctIds ==
  \A s \in Sweeps :
    (SameDevicesTwice(s) /\ DistinctIds(found[s])) => result[s] = result[s + 1]

C9_Witness ==
  \E s \in Sweeps :
    /\ SameDevicesTwice(s)
    /\ DistinctIds(found[s])
    /\ Cardinality(found[s]) >= 2
    /\ result[s] = result[s + 1]

\* C10: devices_list() called before any call of devices() returns the empty
\* mapping.
C10_ListBeforeFirstSweepIsEmpty ==
  (served.op = "devices_list" /\ \A s \in Sweeps : pc[s] = "idle")
    => served.value = EmptyRegistry

\* a step that is a call of devices_list()
ListStep == served' # served /\ served'.op = "devices_list"

\* C11: a call of devices_list() starts no probe, leaves the global and every
\* dict as they were and returns what the global holds, which is a mapping
\* from id to record as devices() returns it.
C11_ListIsPureAndReturnsMapping ==
  [][ListStep
       => /\ devices_list' = devices_list
          /\ heap' = heap
          /\ thread' = thread
          /\ pc' = pc
          /\ served'.value = Registry
          /\ served'.value.tag = "dict"]_vars

\* the output of `ip r l` names a source address
HasSrc(toks) == \E n \in 1 .. Len(toks) : toks[n] = <<"src">>

\* C12: a call of devices() whose output of `ip r l` names no source address
\* starts no probe and does not get past the first loop.
C12_NoSubnetNoProbe ==
  \A s \in Sweeps :
    (strs[s] # NoStrs /\ ~HasSrc(strs[s]))
      => /\ \A a \in Suffixes : thread[s][a] = NoThread
         /\ pc[s] \notin {"join", "return"}

\* one of the three attributes of the class is None
AnyNone(cls) ==
  \E name \in {"functional_type", "sql_data_type", "header_name"} :
    getattr(cls, name) = None

C14_EverySweepReturnsItsOwnAnswers ==
  \A s \in Sweeps :
    Returned(s) =>
      /\ result[s].tag = "dict"
      /\ Keys(result[s].map) = FoundIds(s)
      /\ \A k \in Keys(result[s].map) :
           \E x \in found[s] : x.id = k /\ result[s].map[k] = [id |-> k, ip |-> x.url]

\* call s is the last call of devices() so far
Latest(s) == \A t \in Sweeps : t > s => pc[t] = "idle"

\* C15: a call of devices() that raised, made while the registry was a
\* mapping, leaves the registry as it was before the call.
C15_FailedSweepKeepsRegistry ==
  \A s \in Sweeps :
    (pc[s] = "raised" /\ pre[s].tag = "dict" /\ Latest(s)) => Registry = pre[s]

\* C16: an id that was in the registry when a sweep began and that no probe of
\* the sweep got is not in the registry the sweep returns.
C16_RegistryDoesNotAccumulate ==
  \A s \in Sweeps :
    (Alone(s) /\ pre[s].tag = "dict") =>
      \A k \in Keys(pre[s].map) : k \notin FoundIds(s) => k \notin Keys(result[s].map)

C16_Witness ==
  \E s \in Sweeps :
    /\ Alone(s)
    /\ pre[s].tag = "dict"
    /\ found[s] # {}
    /\ \E k \in Keys(pre[s].map) : k \notin FoundIds(s) /\ k \notin Keys(result[s].map)

\* C17: the first loop starts one Discover per suffix, in order, none skipped:
\* after n passes the suffixes below n have a thread and the others have none;
\* once the loop is done every suffix has one, each with the url made of the
\* first three parts of host_ip and its suffix, and with the timeout 0.5.
C17_OneProbePerSuffix ==
  \A s \in Sweeps :
    /\ pc[s] = "dispatch" =>
         \A a \in Suffixes : (thread[s][a] # NoThread) <=> (a < i[s])
    /\ pc[s] \in {"dispatch", "join", "return"} =>
         \A a \in Suffixes :
           thread[s][a] # NoThread =>
             /\ thread[s][a].url =
                  [net |-> SubSeq(host_ip[s], 1, 3), host |-> a]
             /\ thread[s][a].scanInterval = 5
    /\ pc[s] \in {"join", "return"} =>
         Cardinality({a \in Suffixes : thread[s][a] # NoThread}) = NumSuffixes

C17_Witness ==
  \E s \in Sweeps :
    /\ pc[s] = "join"
    /\ \A a \in Suffixes : thread[s][a].pc = "run"

\* C18: in every dict the global has referred to, each key maps to a record
\* whose id is that key.
C18_KeyIsRecordId ==
  \A d \in Sweeps : \A k \in Keys(heap[d]) : heap[d][k].id = k

C18_Witness ==
  /\ served.op = "device"
  /\ Registry.tag = "dict"
  /\ Cardinality(Keys(Registry.map)) >= 2
  /\ \E s \in Sweeps : Returned(s)

====
